---- MODULE Spec2Model ----
(***************************************************************************)
(* Model of the notebook "5 Python Built-in Functions and Modules That     *)
(* Save Time".  The notebook has five code cells sharing no state:         *)
(*   shelve    persistent mapping: write, close, reopen, read              *)
(*   partial   functools.partial binding url= of session.post              *)
(*   single / batch   the two ThreadPoolExecutor benchmark strategies      *)
(*   dispatch  functools.singledispatch on int / str with a fallback       *)
(*   closing   sqlite3 connection and contextlib.closing(cursor)           *)
(* One behaviour runs one cell (or one benchmark function) from its first  *)
(* statement; `cell` names it and `pc` is the position of the main thread. *)
(* The library primitives the cells call are modelled by what CPython 3.11 *)
(* (the notebook's kernel) does at the call site.                          *)
(***************************************************************************)
EXTENDS Integers, Sequences, FiniteSets

\* ---------------------------------------------------------------- bounds
\* DATA, BATCH_SIZE and MAX_WORKERS (20000, 400, 50 in the notebook) are
\* scaled down: the benchmark is explored for every length, batch size and
\* pool size up to these bounds.
MaxDataLen == 4
MaxBatchSize == 2
MaxWorkersBound == 2

VARIABLES
  cell,             \* which cell / benchmark function this behaviour runs
  pc,               \* position of the main thread inside the cell
  exc,              \* exception in flight or propagated ("none" if none)
  \* -- shelve cell
  disk,             \* content of the file myTest.db: key -> pickled bytes
  db,               \* the Shelf handle: "none", "open", "closed"
  response,         \* the object returned by requests.get
  stored_response,  \* the object read back in the second block
  \* -- partial cell
  post,             \* the partial object
  calls,            \* calls received by session.post, in order
  \* -- benchmark cells
  DATA, BATCH_SIZE, MAX_WORKERS,
  fs,               \* executor.map's list fs: one work item / future per task
  work_queue,       \* executor._work_queue (task index, or 0 for None)
  threads,          \* executor._threads, in creation order
  idle_semaphore,   \* executor._idle_semaphore
  shutdown,         \* executor._shutdown
  ioCount,          \* simulate_io_operation calls per position of DATA
  \* -- dispatch cell
  args,             \* the arguments of the three usage calls
  printed,          \* lines printed by the cell
  results,          \* implementation chosen and outcome of each call made
  \* -- closing cell
  connection,       \* "none", "open", "closed"
  transaction,      \* "none", "committed", "rolledback"
  cursor,           \* "none", "open", "closed"
  closeCalls,       \* number of cursor.close() invocations
  queryRan          \* cursor.execute returned or raised

commonVars == <<cell, pc, exc>>
shelveVars == <<disk, db, response, stored_response>>
partialVars == <<post, calls>>
poolVars == <<DATA, BATCH_SIZE, MAX_WORKERS, fs, work_queue, threads,
              idle_semaphore, shutdown, ioCount>>
dispatchVars == <<args, printed, results>>
closingVars == <<connection, transaction, cursor, closeCalls, queryRan>>
vars == <<commonVars, shelveVars, partialVars, poolVars, dispatchVars, closingVars>>

\* What the actions of one cell leave alone: the variables of the others.
notShelve == <<partialVars, poolVars, dispatchVars, closingVars>>
notPartial == <<shelveVars, poolVars, dispatchVars, closingVars>>
notPool == <<shelveVars, partialVars, dispatchVars, closingVars>>
notDispatch == <<shelveVars, partialVars, poolVars, closingVars>>
notClosing == <<shelveVars, partialVars, poolVars, dispatchVars>>

Min(a, b) == IF a < b THEN a ELSE b

\* ================================================================ shelve
KEY == "example_response"

\* A requests.Response reduced to its pickled state: status code and body.
Responses == [status_code : {200, 404}, content : {<<>>, <<104, 105>>}]

NoneValue == [status_code |-> 0, content |-> <<>>]

\* pickle.dumps: the Shelf stores the value as a byte string, here the
\* status code followed by the body bytes.
Pickle(v) == <<v.status_code>> \o v.content

\* pickle.loads
Unpickle(b) == [status_code |-> Head(b), content |-> Tail(b)]

\* The file before the cell runs: missing or empty (no entry, <<>>), or left
\* by an earlier run with an entry under KEY.
InitialDisks == {[k \in {KEY} |-> <<>>]} \cup
                {[k \in {KEY} |-> Pickle(v)] : v \in Responses}

ShelveIdle ==
  /\ disk = [k \in {KEY} |-> <<>>]
  /\ db = "none"
  /\ response = NoneValue
  /\ stored_response = NoneValue

InitShelve ==
  /\ cell = "shelve" /\ pc = "get" /\ exc = "none"
  /\ disk \in InitialDisks
  /\ db = "none"
  /\ response = NoneValue
  /\ stored_response = NoneValue

\* response = requests.get('https://example.com'); no error handling, a
\* network failure propagates.
RequestsGet ==
  /\ cell = "shelve" /\ pc = "get"
  /\ \/ \E r \in Responses :
          /\ response' = r
          /\ pc' = "open1" /\ exc' = exc
     \/ /\ pc' = "raised" /\ exc' = "ConnectionError"
        /\ response' = response
  /\ UNCHANGED <<cell, disk, db, stored_response, notShelve>>

\* with shelve.open('myTest.db') as db:   (flag 'c': created when missing)
ShelveOpen ==
  /\ cell = "shelve" /\ pc \in {"open1", "open2"}
  /\ \/ /\ db' = "open"
        /\ pc' = IF pc = "open1" THEN "body1" ELSE "body2"
        /\ exc' = exc
     \/ /\ pc' = "raised" /\ exc' = "OSError"
        /\ db' = db
  /\ UNCHANGED <<cell, disk, response, stored_response, notShelve>>

\* Mutant of ShelfSetItem: an entry already in the file is not overwritten.
ShelfSetItemKeepsOld ==
  /\ cell = "shelve" /\ pc = "body1" /\ db = "open"
  /\ \/ /\ disk' = IF disk[KEY] = <<>>
                   THEN [disk EXCEPT ![KEY] = Pickle(response)]
                   ELSE disk
        /\ exc' = exc
     \/ /\ exc' = "OSError"
        /\ disk' = disk
  /\ pc' = "exit1"
  /\ UNCHANGED <<cell, db, response, stored_response, notShelve>>

\* db['example_response'] = response: Shelf.__setitem__ pickles the value
\* and stores the bytes under the key (writeback is off: straight to the
\* file).
ShelfSetItem ==
  /\ cell = "shelve" /\ pc = "body1" /\ db = "open"
  /\ \/ /\ disk' = [disk EXCEPT ![KEY] = Pickle(response)]
        /\ exc' = exc
     \/ /\ exc' = "OSError"
        /\ disk' = disk
  /\ pc' = "exit1"
  /\ UNCHANGED <<cell, db, response, stored_response, notShelve>>

\* stored_response = db['example_response']: Shelf.__getitem__ unpickles the
\* stored bytes; a missing key raises KeyError.
ShelfGetItem ==
  /\ cell = "shelve" /\ pc = "body2" /\ db = "open"
  /\ IF disk[KEY] = <<>>
     THEN /\ exc' = "KeyError"
          /\ stored_response' = stored_response
     ELSE \/ /\ stored_response' = Unpickle(disk[KEY])
             /\ exc' = exc
          \/ /\ exc' = "OSError"
             /\ stored_response' = stored_response
  /\ pc' = "exit2"
  /\ UNCHANGED <<cell, disk, db, response, notShelve>>

\* Shelf.__exit__ calls self.close(); an exception of the body propagates.
ShelfExit ==
  /\ cell = "shelve" /\ pc \in {"exit1", "exit2"}
  /\ db' = "closed"
  /\ pc' = IF exc # "none" THEN "raised"
           ELSE IF pc = "exit1" THEN "open2" ELSE "done"
  /\ UNCHANGED <<cell, exc, disk, response, stored_response, notShelve>>

\* =============================================================== partial
graphql_url == "https://countries.trevorblades.com/"

body1 == "query { continents { name } }"

body2 == "query { country (code: PL) { name, awsRegion } }"

NoPartial == [func |-> "none", keywords |-> [k \in {} |-> ""]]

\* functools.partial(func, **keywords): remembers func and the keywords.
Partial(func, keywords) == [func |-> func, keywords |-> keywords]

\* partial.__call__: keywords = {**self.keywords, **kwargs}
MergeKeywords(bound, kwargs) ==
  [k \in DOMAIN bound \cup DOMAIN kwargs |->
     IF k \in DOMAIN kwargs THEN kwargs[k] ELSE bound[k]]

\* Session.post(url, data=None, json=None, **kwargs): one POST request.
SessionPost(keywords) ==
  [method |-> "POST", url |-> keywords["url"], json |-> keywords["json"]]

\* partial.__call__: func(*self.args, *args, **keywords)
PartialCall(p, kwargs) == SessionPost(MergeKeywords(p.keywords, kwargs))

PartialIdle ==
  /\ post = NoPartial
  /\ calls = <<>>

InitPartial ==
  /\ cell = "partial" /\ pc = "bind" /\ exc = "none"
  /\ PartialIdle

\* session = Session(); post = partial(session.post, url=graphql_url)
BindPost ==
  /\ cell = "partial" /\ pc = "bind"
  /\ post' = Partial("session.post", [k \in {"url"} |-> graphql_url])
  /\ pc' = "call1"
  /\ UNCHANGED <<cell, exc, calls, notPartial>>

\* Mutant of InvokePost: the payload of the first invocation is sent again.
InvokePostReusesBody ==
  /\ cell = "partial" /\ pc \in {"call1", "call2"}
  /\ calls' = Append(calls, PartialCall(post, [k \in {"json"} |-> body1]))
  /\ \/ /\ pc' = IF pc = "call1" THEN "call2" ELSE "done"
        /\ exc' = exc
     \/ /\ pc' = "raised" /\ exc' = "RequestException"
  /\ UNCHANGED <<cell, post, notPartial>>

\* resp = post(json={"query": body}); print(..., resp.json(), ...)
\* (the dict {"query": body} is represented by body.)
\* The request reaches session.post; the network call or resp.json() may
\* then fail, which propagates.
InvokePost ==
  /\ cell = "partial" /\ pc \in {"call1", "call2"}
  /\ LET body == IF pc = "call1" THEN body1 ELSE body2
     IN calls' = Append(calls, PartialCall(post, [k \in {"json"} |-> body]))
  /\ \/ /\ pc' = IF pc = "call1" THEN "call2" ELSE "done"
        /\ exc' = exc
     \/ /\ pc' = "raised" /\ exc' = "RequestException"
  /\ UNCHANGED <<cell, post, notPartial>>

\* ============================================================ benchmarks
Bench == {"single", "batch"}

\* DATA = [1] * n
Ones(n) == [i \in 1..n |-> 1]

\* A list of n distinct elements, to tell the positions of DATA apart.
Iota(n) == [i \in 1..n |-> i]

\* itertools.islice(it, n) on the rest of the iterable, and what it leaves.
Take(seq, n) == SubSeq(seq, 1, Min(n, Len(seq)))

Drop(seq, n) == SubSeq(seq, Min(n, Len(seq)) + 1, Len(seq))

\* Mutant of Batched: the stride is one more than the batch length, so one
\* element is skipped between two batches.
RECURSIVE BatchedSkipsOne(_, _)
BatchedSkipsOne(seq, n) ==
  IF seq = <<>> THEN <<>>
  ELSE <<Take(seq, n)>> \o BatchedSkipsOne(Drop(seq, n + 1), n)

\* batched(iterable, n):  while batch := tuple(islice(it, n)): yield batch
RECURSIVE Batched(_, _)
Batched(seq, n) ==
  IF seq = <<>> THEN <<>>
  ELSE <<Take(seq, n)>> \o Batched(Drop(seq, n), n)

\* The argument tuples executor.map draws from zip(*iterables): one element
\* of DATA per task in test_single, one batch per task in test_batch.
Iterable ==
  IF cell = "single" THEN [i \in 1..Len(DATA) |-> <<DATA[i]>>]
  ELSE Batched(DATA, BATCH_SIZE)

RECURSIVE Flatten(_)
Flatten(chunks) ==
  IF chunks = <<>> THEN <<>> ELSE Head(chunks) \o Flatten(Tail(chunks))

\* Elements of DATA already handed out to the tasks in fs.
Consumed == Len(Flatten([i \in 1..Len(fs) |-> fs[i].items]))

Running == {t \in 1..Len(threads) : threads[t].st = "running"}

QueuedTasks == {i \in 1..Len(work_queue) : work_queue[i] # 0}

PoolIdle ==
  /\ DATA = <<>> /\ BATCH_SIZE = 1 /\ MAX_WORKERS = 1
  /\ fs = <<>> /\ work_queue = <<>> /\ threads = <<>>
  /\ idle_semaphore = 0 /\ shutdown = FALSE
  /\ ioCount = <<>>

InitPool ==
  /\ cell \in Bench /\ pc = "enter" /\ exc = "none"
  /\ \E n \in 1..MaxDataLen : DATA \in {Ones(n), Iota(n)}
  /\ BATCH_SIZE \in 1..MaxBatchSize
  /\ MAX_WORKERS \in 1..MaxWorkersBound
  /\ fs = <<>> /\ work_queue = <<>> /\ threads = <<>>
  /\ idle_semaphore = 0 /\ shutdown = FALSE
  /\ ioCount = [i \in 1..Len(DATA) |-> 0]

\* with ThreadPoolExecutor(max_workers=MAX_WORKERS) as executor:
EnterPool ==
  /\ cell \in Bench /\ pc = "enter"
  /\ pc' = "map"
  /\ UNCHANGED <<cell, exc, poolVars, notPool>>

\* Mutant of AdjustThreadCount: the max_workers test is missing.
AdjustThreadCountUnbounded ==
  IF idle_semaphore > 0
  THEN /\ idle_semaphore' = idle_semaphore - 1
       /\ threads' = threads
  ELSE /\ idle_semaphore' = idle_semaphore
       /\ threads' = Append(threads, [st |-> "waiting", item |-> 0, j |-> 0])

\* ThreadPoolExecutor._adjust_thread_count: take an idle token if there is
\* one, else start a thread while fewer than max_workers exist.  A new
\* thread starts in _worker, blocked in work_queue.get().
AdjustThreadCount ==
  IF idle_semaphore > 0
  THEN /\ idle_semaphore' = idle_semaphore - 1
       /\ threads' = threads
  ELSE /\ idle_semaphore' = idle_semaphore
       /\ threads' = IF Len(threads) < MAX_WORKERS
                     THEN Append(threads, [st |-> "waiting", item |-> 0, j |-> 0])
                     ELSE threads

\* Mutant of Submit: submission waits until a worker is free.
SubmitBlocking ==
  /\ cell \in Bench /\ pc = "map"
  /\ Len(fs) < Len(Iterable)
  /\ Cardinality(Running) < MAX_WORKERS
  /\ fs' = Append(fs, [items |-> Iterable[Len(fs) + 1],
                       first |-> Consumed + 1,
                       state |-> "PENDING"])
  /\ work_queue' = Append(work_queue, Len(fs) + 1)
  /\ AdjustThreadCount
  /\ UNCHANGED <<commonVars, DATA, BATCH_SIZE, MAX_WORKERS, shutdown, ioCount, notPool>>

\* One iteration of executor.map's  fs = [self.submit(fn, *args) for args in
\* zip(*iterables)]:  submit puts the work item on the queue and adjusts the
\* thread count; it never waits for a worker.
Submit ==
  /\ cell \in Bench /\ pc = "map"
  /\ Len(fs) < Len(Iterable)
  /\ fs' = Append(fs, [items |-> Iterable[Len(fs) + 1],
                       first |-> Consumed + 1,
                       state |-> "PENDING"])
  /\ work_queue' = Append(work_queue, Len(fs) + 1)
  /\ AdjustThreadCount
  /\ UNCHANGED <<commonVars, DATA, BATCH_SIZE, MAX_WORKERS, shutdown, ioCount, notPool>>

\* The iterable is exhausted: map returns its (never consumed) result
\* iterator and the body of the with block ends.
MapReturn ==
  /\ cell \in Bench /\ pc = "map"
  /\ Len(fs) = Len(Iterable)
  /\ pc' = "exit"
  /\ UNCHANGED <<cell, exc, poolVars, notPool>>

\* Executor.__exit__ -> shutdown(wait=True), up to the joins: set the flag
\* and put the None wake-up on the queue.
Shutdown ==
  /\ cell \in Bench /\ pc = "exit"
  /\ shutdown' = TRUE
  /\ work_queue' = Append(work_queue, 0)
  /\ pc' = "join"
  /\ UNCHANGED <<cell, exc, DATA, BATCH_SIZE, MAX_WORKERS, fs, threads,
                 idle_semaphore, ioCount, notPool>>

\* Mutant of JoinThreads: shutdown(wait=False), the threads are not joined.
JoinThreadsNoWait ==
  /\ cell \in Bench /\ pc = "join"
  /\ pc' = "done"
  /\ UNCHANGED <<cell, exc, poolVars, notPool>>

\* shutdown(wait=True):  for t in self._threads: t.join()
JoinThreads ==
  /\ cell \in Bench /\ pc = "join"
  /\ \A t \in 1..Len(threads) : threads[t].st = "exited"
  /\ pc' = "done"
  /\ UNCHANGED <<cell, exc, poolVars, notPool>>

\* _worker: work_item = work_queue.get(block=True).  A work item is run; on
\* None the worker of a shut-down executor puts None back for the others
\* and returns.
WorkerGet(t) ==
  /\ cell \in Bench
  /\ threads[t].st = "waiting"
  /\ work_queue # <<>>
  /\ LET work_item == Head(work_queue) IN
       IF work_item # 0
       THEN /\ threads' = [threads EXCEPT ![t] = [st |-> "running", item |-> work_item, j |-> 0]]
            /\ fs' = [fs EXCEPT ![work_item].state = "RUNNING"]
            /\ work_queue' = Tail(work_queue)
       ELSE IF shutdown
       THEN /\ threads' = [threads EXCEPT ![t] = [st |-> "exited", item |-> 0, j |-> 0]]
            /\ work_queue' = Append(Tail(work_queue), 0)
            /\ fs' = fs
       ELSE /\ work_queue' = Tail(work_queue)
            /\ UNCHANGED <<threads, fs>>
  /\ UNCHANGED <<commonVars, DATA, BATCH_SIZE, MAX_WORKERS, idle_semaphore,
                 shutdown, ioCount, notPool>>

\* simulate_io_operation(item): sleep(SLEEP_TIME), once for the element of
\* process_data, once per element of the batch in process_data_in_batch.
SimulateIoOperation(t) ==
  /\ cell \in Bench
  /\ threads[t].st = "running"
  /\ threads[t].j < Len(fs[threads[t].item].items)
  /\ LET pos == fs[threads[t].item].first + threads[t].j
     IN ioCount' = [ioCount EXCEPT ![pos] = @ + 1]
  /\ threads' = [threads EXCEPT ![t].j = @ + 1]
  /\ UNCHANGED <<commonVars, DATA, BATCH_SIZE, MAX_WORKERS, fs, work_queue,
                 idle_semaphore, shutdown, notPool>>

\* The task function returns: work_item.run() sets the future's result, the
\* worker releases the idle semaphore and goes back to work_queue.get().
WorkerFinish(t) ==
  /\ cell \in Bench
  /\ threads[t].st = "running"
  /\ threads[t].j = Len(fs[threads[t].item].items)
  /\ fs' = [fs EXCEPT ![threads[t].item].state = "FINISHED"]
  /\ idle_semaphore' = idle_semaphore + 1
  /\ threads' = [threads EXCEPT ![t] = [st |-> "waiting", item |-> 0, j |-> 0]]
  /\ UNCHANGED <<commonVars, DATA, BATCH_SIZE, MAX_WORKERS, work_queue,
                 shutdown, ioCount, notPool>>

\* ============================================================== dispatch
\* Python values by runtime type.  A str is its sequence of code points, a
\* bool carries 0 / 1 (True + 10 is 11).
IntV(n) == [type |-> "int", val |-> n]

BoolV(b) == [type |-> "bool", val |-> IF b THEN 1 ELSE 0]

StrV(s) == [type |-> "str", val |-> s]

ListV(l) == [type |-> "list", val |-> l]

NoneV == [type |-> "NoneType", val |-> 0]

hello == <<104, 101, 108, 108, 111>>

HELLO == <<72, 69, 76, 76, 79>>

lama == <<108, 97, 109, 97>>

\* The arguments tried at each call site; 10, 'hello' and ['lama'] are the
\* notebook's.
Values == {IntV(10), IntV(-3), BoolV(TRUE), StrV(hello), StrV(<<72, 105, 33>>),
           ListV(<<lama>>), NoneV}

\* type(value).__mro__
Mro(type) ==
  CASE type = "bool" -> <<"bool", "int", "object">>
    [] type = "int" -> <<"int", "object">>
    [] type = "str" -> <<"str", "object">>
    [] type = "list" -> <<"list", "object">>
    [] OTHER -> <<type, "object">>

\* process.registry after the two @process.register: object is the
\* @singledispatch default, int and str come from the annotations.
Registry == {"object", "int", "str"}

\* singledispatch's dispatch(cls): the first class of the MRO that has a
\* registered implementation.
RECURSIVE FindImpl(_)
FindImpl(mro) ==
  IF Head(mro) \in Registry THEN Head(mro) ELSE FindImpl(Tail(mro))

Dispatch(type) == FindImpl(Mro(type))

\* Mutant of Upper: only the first character is upper-cased (capitalize).
UpperFirstOnly(s) ==
  [i \in 1..Len(s) |-> IF i = 1 /\ s[i] >= 97 /\ s[i] <= 122 THEN s[i] - 32 ELSE s[i]]

\* str.upper() on ASCII text: a..z become A..Z, the rest is kept.
Upper(s) == [i \in 1..Len(s) |-> IF s[i] >= 97 /\ s[i] <= 122 THEN s[i] - 32 ELSE s[i]]

Return(v) == [kind |-> "return", value |-> v]

Raise(e, m) == [kind |-> "raise", exc |-> e, msg |-> m]

\* Mutant of Process: the default implementation raises TypeError.
ProcessRaisesTypeError(value) ==
  LET impl == Dispatch(value.type) IN
    CASE impl = "int" -> [impl |-> impl, outcome |-> Return(IntV(value.val + 10))]
      [] impl = "str" -> [impl |-> impl, outcome |-> Return(StrV(Upper(value.val)))]
      [] OTHER -> [impl |-> impl, outcome |-> Raise("TypeError", "Unsupported type")]

\* process(value): the implementation chosen by the type of the argument.
Process(value) ==
  LET impl == Dispatch(value.type) IN
    CASE impl = "int" -> [impl |-> impl, outcome |-> Return(IntV(value.val + 10))]
      [] impl = "str" -> [impl |-> impl, outcome |-> Return(StrV(Upper(value.val)))]
      [] OTHER -> [impl |-> impl, outcome |-> Raise("NotImplementedError", "Unsupported type")]

DispatchIdle ==
  /\ args = <<>> /\ printed = <<>> /\ results = <<>>

InitDispatch ==
  /\ cell = "dispatch" /\ pc = "usage1" /\ exc = "none"
  /\ args \in [1..3 -> Values]
  /\ printed = <<>> /\ results = <<>>

\* print(process(10)) and print(process('hello')): not guarded, an error of
\* process propagates.
PrintProcess ==
  /\ cell = "dispatch" /\ pc \in {"usage1", "usage2"}
  /\ LET r == Process(args[Len(results) + 1]) IN
       /\ results' = Append(results, r)
       /\ IF r.outcome.kind = "return"
          THEN /\ printed' = Append(printed, [line |-> "value", text |-> r.outcome.value.val])
               /\ pc' = IF pc = "usage1" THEN "usage2" ELSE "usage3"
               /\ exc' = exc
          ELSE /\ pc' = "raised" /\ exc' = r.outcome.exc
               /\ printed' = printed
  /\ UNCHANGED <<cell, args, notDispatch>>

\* try: process(['lama'])
\* except NotImplementedError as err: print(f"... error caught: {err}")
TryProcess ==
  /\ cell = "dispatch" /\ pc = "usage3"
  /\ LET r == Process(args[3]) IN
       /\ results' = Append(results, r)
       /\ IF r.outcome.kind = "raise" /\ r.outcome.exc = "NotImplementedError"
          THEN printed' = Append(printed, [line |-> "caught", text |-> r.outcome.msg])
          ELSE printed' = printed
  /\ pc' = "done"
  /\ UNCHANGED <<cell, exc, args, notDispatch>>

\* =============================================================== closing
ClosingIdle ==
  /\ connection = "none" /\ transaction = "none" /\ cursor = "none"
  /\ closeCalls = 0 /\ queryRan = FALSE

InitClosing ==
  /\ cell = "closing" /\ pc = "connect" /\ exc = "none"
  /\ ClosingIdle

\* with sqlite3.connect('myOtherTest') as connection:
Connect ==
  /\ cell = "closing" /\ pc = "connect"
  /\ \/ /\ connection' = "open"
        /\ pc' = "cursor" /\ exc' = exc
     \/ /\ pc' = "raised" /\ exc' = "OperationalError"
        /\ connection' = connection
  /\ UNCHANGED <<cell, transaction, cursor, closeCalls, queryRan, notClosing>>

\* with closing(connection.cursor()) as cursor:
EnterClosing ==
  /\ cell = "closing" /\ pc = "cursor"
  /\ cursor' = "open"
  /\ pc' = "execute"
  /\ UNCHANGED <<cell, exc, connection, transaction, closeCalls, queryRan, notClosing>>

\* cursor.execute("SELECT 'HELLO WORLD'"): a failure leaves the block.
Execute ==
  /\ cell = "closing" /\ pc = "execute"
  /\ queryRan' = TRUE
  /\ \/ /\ pc' = "fetch" /\ exc' = exc
     \/ /\ pc' = "closingExit" /\ exc' = "OperationalError"
  /\ UNCHANGED <<cell, connection, transaction, cursor, closeCalls, notClosing>>

\* print(cursor.fetchall())
FetchAll ==
  /\ cell = "closing" /\ pc = "fetch"
  /\ \/ exc' = exc
     \/ exc' = "OperationalError"
  /\ pc' = "closingExit"
  /\ UNCHANGED <<cell, connection, transaction, cursor, closeCalls, queryRan, notClosing>>

\* Mutant of ClosingExit: close() at the end of the body instead of in a
\* finally clause, so it is skipped when the body raised.
ClosingExitNoFinally ==
  /\ cell = "closing" /\ pc = "closingExit"
  /\ closeCalls' = IF exc = "none" THEN closeCalls + 1 ELSE closeCalls
  /\ cursor' = IF exc = "none" THEN "closed" ELSE cursor
  /\ pc' = "connectionExit"
  /\ UNCHANGED <<cell, exc, connection, transaction, queryRan, notClosing>>

\* closing.__exit__: self.thing.close()
ClosingExit ==
  /\ cell = "closing" /\ pc = "closingExit"
  /\ closeCalls' = closeCalls + 1
  /\ cursor' = "closed"
  /\ pc' = "connectionExit"
  /\ UNCHANGED <<cell, exc, connection, transaction, queryRan, notClosing>>

\* sqlite3.Connection.__exit__: commit when the body succeeded, roll back
\* when it raised; the connection itself is not closed.
ConnectionExit ==
  /\ cell = "closing" /\ pc = "connectionExit"
  /\ transaction' = IF exc = "none" THEN "committed" ELSE "rolledback"
  /\ connection' = connection
  /\ pc' = IF exc = "none" THEN "done" ELSE "raised"
  /\ UNCHANGED <<cell, exc, cursor, closeCalls, queryRan, notClosing>>

\* ========================================================= specification
Init ==
  \/ InitShelve /\ PartialIdle /\ PoolIdle /\ DispatchIdle /\ ClosingIdle
  \/ InitPartial /\ ShelveIdle /\ PoolIdle /\ DispatchIdle /\ ClosingIdle
  \/ InitPool /\ ShelveIdle /\ PartialIdle /\ DispatchIdle /\ ClosingIdle
  \/ InitDispatch /\ ShelveIdle /\ PartialIdle /\ PoolIdle /\ ClosingIdle
  \/ InitClosing /\ ShelveIdle /\ PartialIdle /\ PoolIdle /\ DispatchIdle

Next ==
  \/ RequestsGet
  \/ ShelveOpen
  \/ ShelfSetItem
  \/ ShelfGetItem
  \/ ShelfExit
  \/ BindPost
  \/ InvokePost
  \/ EnterPool
  \/ Submit
  \/ MapReturn
  \/ Shutdown
  \/ JoinThreads
  \/ \E t \in 1..Len(threads) : WorkerGet(t)
  \/ \E t \in 1..Len(threads) : SimulateIoOperation(t)
  \/ \E t \in 1..Len(threads) : WorkerFinish(t)
  \/ PrintProcess
  \/ TryProcess
  \/ Connect
  \/ EnterClosing
  \/ Execute
  \/ FetchAll
  \/ ClosingExit
  \/ ConnectionExit

Spec == Init /\ [][Next]_vars

\* The interpreter keeps running whichever thread can run.
FairSpec == Spec /\ WF_vars(Next)

\* ================================================================ claims
Lower(c) == IF c >= 65 /\ c <= 90 THEN c + 32 ELSE c

\* r is s with every letter in upper case.
IsUpperOf(r, s) ==
  /\ Len(r) = Len(s)
  /\ \A i \in 1..Len(s) :
       /\ ~(r[i] >= 97 /\ r[i] <= 122)
       /\ Lower(r[i]) = Lower(s[i])
       /\ (~(s[i] >= 97 /\ s[i] <= 122) => r[i] = s[i])

MapReturned == pc \in {"exit", "join", "done"}

\* C1: when the length of DATA is a multiple of BATCH_SIZE, the batches
\* test_batch hands to the pool are exactly len(DATA) / BATCH_SIZE chunks,
\* each of length BATCH_SIZE, chunk i starting at position (i-1)*BATCH_SIZE+1,
\* and their concatenation in order is DATA.
C1_BatchedCoversData ==
  (cell = "batch" /\ MapReturned /\ Len(DATA) % BATCH_SIZE = 0) =>
     /\ Len(fs) = Len(DATA) \div BATCH_SIZE
     /\ \A i \in 1..Len(fs) :
          /\ Len(fs[i].items) = BATCH_SIZE
          /\ fs[i].first = (i - 1) * BATCH_SIZE + 1
     /\ Flatten([i \in 1..Len(fs) |-> fs[i].items]) = DATA

C1_Witness ==
  /\ cell = "batch" /\ pc = "exit"
  /\ DATA = Iota(4) /\ BATCH_SIZE = 2
  /\ Len(fs) = 2

\* C2: every call of process made so far returned value + 10 for an int
\* argument, the upper-cased string for a str argument, and raised
\* NotImplementedError("Unsupported type") for a list argument;
\* process(10) = 20 and process('hello') = 'HELLO'.
C2_ProcessByType ==
  \A i \in 1..Len(results) :
    /\ args[i].type = "int" =>
         results[i].outcome = Return(IntV(args[i].val + 10))
    /\ args[i].type = "str" =>
         /\ results[i].outcome.kind = "return"
         /\ results[i].outcome.value.type = "str"
         /\ IsUpperOf(results[i].outcome.value.val, args[i].val)
    /\ args[i].type = "list" =>
         results[i].outcome = Raise("NotImplementedError", "Unsupported type")
    /\ args[i] = IntV(10) => results[i].outcome = Return(IntV(20))
    /\ args[i] = StrV(hello) => results[i].outcome = Return(StrV(HELLO))

C2_Witness ==
  /\ cell = "dispatch" /\ pc = "done"
  /\ args = <<IntV(10), StrV(hello), ListV(<<lama>>)>>
  /\ Len(results) = 3
  /\ printed = <<[line |-> "value", text |-> 20],
                 [line |-> "value", text |-> HELLO],
                 [line |-> "caught", text |-> "Unsupported type"]>>

LeftClosingBlock ==
  \/ pc \in {"connectionExit", "done"}
  \/ pc = "raised" /\ cursor # "none"

\* C3: in the closing cell cursor.close() is never called twice, has not
\* been called while the body of the closing block is still to run or
\* running, is called only after the query ran or failed, and has been
\* called exactly once when the block has been left, normally or by an
\* error of execute or fetchall.
C3_CursorClosedOnce ==
  cell = "closing" =>
    /\ closeCalls <= 1
    /\ pc \in {"execute", "fetch", "closingExit"} => closeCalls = 0
    /\ closeCalls = 1 => queryRan
    /\ LeftClosingBlock => closeCalls = 1

C3_Witness ==
  /\ cell = "closing" /\ pc = "raised"
  /\ exc = "OperationalError" /\ queryRan
  /\ closeCalls = 1 /\ cursor = "closed"

\* C4: when the shelve cell has run to its end, stored_response read in the
\* second block equals the response written in the first.
C4_ShelveRoundTrip ==
  (cell = "shelve" /\ pc = "done") => stored_response = response

C4_Witness ==
  /\ cell = "shelve" /\ pc = "done"
  /\ response = [status_code |-> 404, content |-> <<104, 105>>]
  /\ db = "closed"

AllTasksFinished ==
  /\ Len(fs) = Len(Iterable)
  /\ \A i \in 1..Len(fs) : fs[i].state = "FINISHED"

\* C6: in test_single and test_batch, when the with ThreadPoolExecutor block
\* has been left every task given to executor.map has finished; and under
\* fair scheduling the block is eventually left.
C6_PoolWaitsForTasks ==
  /\ []((cell \in Bench /\ pc = "done") => AllTasksFinished)
  /\ (cell \in Bench => <>(pc = "done"))

C6_Witness ==
  /\ cell = "batch" /\ pc = "done"
  /\ DATA = Ones(4) /\ BATCH_SIZE = 2 /\ MAX_WORKERS = 1
  /\ AllTasksFinished

AllWorkersBusy == Cardinality(Running) = MAX_WORKERS

\* C7 as stated: while all MAX_WORKERS workers are executing a task, no task
\* is waiting in the queue.
C7_NoTaskQueuedWhileAllBusy ==
  (cell \in Bench /\ AllWorkersBusy) => QueuedTasks = {}

\* C7 amended: submission never blocks. While executor.map has arguments
\* left the next submit can be made whatever the workers do, also when all
\* MAX_WORKERS are busy; the tasks wait in the queue, whose length is bounded
\* by the number of tasks only.
C7_SubmitNeverBlocks ==
  cell \in Bench =>
    /\ (pc = "map" /\ Len(fs) < Len(Iterable)) => ENABLED Submit
    /\ Cardinality(QueuedTasks) <= Len(Iterable)

C7_Witness ==
  /\ cell = "single" /\ pc = "map"
  /\ AllWorkersBusy /\ MAX_WORKERS = 2
  /\ Cardinality(QueuedTasks) = 1
  /\ Len(fs) = 3 /\ Len(DATA) = 4

\* C8: session.post is called once per invocation of post, every call with
\* url = graphql_url, the first with the first payload and the second with
\* the second; after both invocations exactly two calls were made.
C8_PartialBindsUrl ==
  cell = "partial" =>
    /\ Len(calls) <= 2
    /\ \A i \in 1..Len(calls) :
         /\ calls[i].method = "POST"
         /\ calls[i].url = graphql_url
         /\ calls[i].json = (IF i = 1 THEN body1 ELSE body2)
    /\ pc = "call2" => Len(calls) = 1
    /\ pc = "done" => Len(calls) = 2

C8_Witness ==
  /\ cell = "partial" /\ pc = "done"
  /\ Len(calls) = 2
  /\ calls[1].json # calls[2].json

Unsupported == Raise("NotImplementedError", "Unsupported type")

\* A registered type or a subclass of one.
HasRegisteredBase(type) ==
  \E k \in 1..Len(Mro(type)) : Mro(type)[k] \in {"int", "str"}

\* The error of the guarded call was caught and printed, the cell went on.
CaughtAndPrinted ==
  /\ pc = "done" /\ exc = "none"
  /\ printed # <<>>
  /\ printed[Len(printed)] = [line |-> "caught", text |-> "Unsupported type"]

\* C9 as stated: every argument whose type is not int or str itself, bool
\* included, gets the Unsupported type error from the default
\* implementation, and the try / except of the third call catches and
\* prints it.
C9_EveryOtherTypeRaises ==
  \A i \in 1..Len(results) :
    args[i].type \notin {"int", "str"} =>
      /\ results[i].outcome = Unsupported
      /\ results[i].impl = "object"
      /\ i = 3 => CaughtAndPrinted

\* C9 amended: every argument whose type is neither int or str nor a
\* subclass of one of them gets the Unsupported type error from the default
\* implementation and runs neither handler, and the try / except of the
\* third call catches and prints it; a bool is dispatched to the int handler
\* and returns value + 10.
C9_UnregisteredTypeRaises ==
  \A i \in 1..Len(results) :
    /\ ~HasRegisteredBase(args[i].type) =>
         /\ results[i].outcome = Unsupported
         /\ results[i].impl = "object"
         /\ i = 3 => CaughtAndPrinted
    /\ args[i].type = "bool" =>
         /\ results[i].impl = "int"
         /\ results[i].outcome = Return(IntV(args[i].val + 10))

C9_Witness ==
  /\ cell = "dispatch" /\ pc = "done"
  /\ args[1] = BoolV(TRUE) /\ args[3] = NoneV
  /\ results[1].outcome = Return(IntV(11))
  /\ CaughtAndPrinted

\* C10: at most MAX_WORKERS tasks execute at the same time, in test_single
\* and in test_batch; and when the pool has been torn down
\* simulate_io_operation has run exactly once for every element of DATA.
C10_BoundedPool ==
  cell \in Bench =>
    /\ Cardinality(Running) <= MAX_WORKERS
    /\ Len(threads) <= MAX_WORKERS
    /\ pc = "done" => \A i \in 1..Len(DATA) : ioCount[i] = 1

C10_Witness ==
  /\ cell = "single" /\ pc = "done"
  /\ Len(DATA) = 4 /\ MAX_WORKERS = 2 /\ Len(threads) = 2
  /\ \A i \in 1..Len(DATA) : ioCount[i] = 1

====
